---- MODULE Spec2Model ----
(***************************************************************************)
(* CloudScraperWrapper (src/cloudscraper.py): a rate-limited wrapper       *)
(* around an HTTP client with an on-disk response cache and a streamed     *)
(* file download.  Every public call (get, post, download_file) is one     *)
(* action; the HTTP client's answer, the sampled delay and the time that   *)
(* passes are inputs of the action.  Time is a discrete non-decreasing     *)
(* clock shared by time.time() and datetime.now().                         *)
(***************************************************************************)
EXTENDS Integers, Sequences, FiniteSets, TLC

\* ---------------------------------------------------------------- bounds
MaxTime == 4        \* the clock stops here
MaxChunks == 2      \* chunks in a streamed body

\* ------------------------------------------------------------ the inputs
\* delay_range given to the constructor; random.uniform is sampled on the
\* integer points of the interval.
delay_range == <<1, 2>>

Delays == delay_range[1]..delay_range[2]

\* time that passes between the stamp of line 53 and the request of line 108
Lags == {0, 1}

\* time.time() is epoch time: at construction it already exceeds any delay.
StartTime == delay_range[2]

URLs == {"https://example.com/a", "https://example.com/b"}

Bodies == {"", "hello"}

MaxCacheAges == {1, 2}

\* Python's None, distinct from every response body.
None == "None"

\* the params a caller passes to get: None (the default) or a query
ParamSets == {None, "page=1", "page=2"}

\* get called without params
NoParams == {None}

\* output paths as component sequences: "out/sub/file.bin" and "file.bin"
Paths == {<<"out", "sub", "file.bin">>, <<"file.bin">>}

\* a streamed body of n chunks; chunk i carries the bytes numbered i
Streams == {[i \in 1..n |-> i] : n \in 0..MaxChunks}

\* what self.scraper.get / self.scraper.post can do: answer or raise
Responses ==
    {[kind |-> "response", status_code |-> 200, text |-> b, chunks |-> <<>>] : b \in Bodies}
    \cup {[kind |-> "response", status_code |-> 403, text |-> "denied", chunks |-> <<>>],
          [kind |-> "CloudflareChallengeError", status_code |-> 0, text |-> "", chunks |-> <<>>],
          [kind |-> "Exception", status_code |-> 0, text |-> "", chunks |-> <<>>]}

\* what self.scraper.get(url, stream=True) can do
StreamResponses ==
    {[kind |-> "response", status_code |-> 200, text |-> "", chunks |-> s] : s \in Streams}
    \cup {[kind |-> "response", status_code |-> 403, text |-> "", chunks |-> <<>>],
          [kind |-> "Exception", status_code |-> 0, text |-> "", chunks |-> <<>>]}

NoResponse == [kind |-> "none", status_code |-> 0, text |-> "", chunks |-> <<>>]

\* filesystem failures while a cache file is written
SaveFaults == {"none", "write"}

\* failures while a download is written: "stream" is an exception raised by
\* iter_content or f.write after `cut` chunks reached the file
DownloadFaults == {"none", "makedirs", "open", "stream"}

\* ------------------------------------------------------------- the state
VARIABLES
    now,                \* the wall clock
    last_request_time,  \* self.last_request_time
    call_begin,         \* when the latest network call began, -1 before the first
    cacheDirExists,     \* the directory self.cache_dir exists
    cache,              \* cache file name -> content of the file
    dirs,               \* the directories that exist for downloads
    files,              \* output path -> content of the file
    lastOp              \* the latest call: its arguments, inputs and outcome

vars == <<now, last_request_time, call_begin, cacheDirExists, cache, dirs, files, lastOp>>

\* --------------------------------------------------------- pure helpers
Netloc(url) == "example.com"

Hash(url) == IF url = "https://example.com/a" THEN 17 ELSE 42

\* _get_cache_filename: netloc and hash(url) joined under cache_dir
get_cache_filename(url) == <<Netloc(url), Hash(url)>>

CacheFiles == {get_cache_filename(u) : u \in URLs}

NoFile == [kind |-> "absent", timestamp |-> 0, url |-> "", data |-> ""]

MalformedFile == [kind |-> "malformed", timestamp |-> 0, url |-> "", data |-> ""]

CacheEntry(t, url, data) == [kind |-> "entry", timestamp |-> t, url |-> url, data |-> data]

\* Python truth value of an Optional[str]
Truthy(x) == x # None /\ x # ""

\* _respect_rate_limit sleeping up to the lower end of delay_range instead of
\* the sampled delay
SleepForMinDelay(time_passed, delay) ==
    IF time_passed < delay_range[1] THEN delay_range[1] - time_passed ELSE 0

\* _respect_rate_limit: how long it sleeps
SleepFor(time_passed, delay) == IF time_passed < delay THEN delay - time_passed ELSE 0

\* _respect_rate_limit storing time_passed (plus the sleep) instead of the time
respect_rate_limit_storing_elapsed(t, delay) ==
    (t - last_request_time) + SleepFor(t - last_request_time, delay)

\* _respect_rate_limit: the value it stores in last_request_time when it is
\* entered at time t
respect_rate_limit(t, delay) == t + SleepFor(t - last_request_time, delay)

\* _get_from_cache at time t: the value returned, or the exception raised by
\* json.load on a file that does not parse
get_from_cache(url, max_age, t) ==
    LET f == cache[get_cache_filename(url)]
    IN  IF ~cacheDirExists \/ f.kind = "absent"
        THEN [raised |-> FALSE, value |-> None]
        ELSE IF f.kind = "malformed"
        THEN [raised |-> TRUE, value |-> None]
        ELSE IF t - f.timestamp < max_age
        THEN [raised |-> FALSE, value |-> f.data]
        ELSE [raised |-> FALSE, value |-> None]

\* _save_to_cache at time t: open(cache_file, 'w') raises when the directory
\* is gone; a failing write leaves a truncated file
save_to_cache(url, data, t, fault) ==
    LET name == get_cache_filename(url)
    IN  IF ~cacheDirExists
        THEN [raised |-> TRUE, cache |-> cache]
        ELSE IF fault = "write"
        THEN [raised |-> TRUE, cache |-> [cache EXCEPT ![name] = MalformedFile]]
        ELSE [raised |-> FALSE, cache |-> [cache EXCEPT ![name] = CacheEntry(t, url, data)]]

\* get writing every answered response to the cache, without the test of line 110
SaveOnAnyStatus(resp, use_cache) == use_cache

\* get writing a status-200 body to the cache whatever use_cache says
SaveIgnoringUseCache(resp, use_cache) == resp.status_code = 200

\* get, lines 110-112: the response is written to the cache
SaveOn200(resp, use_cache) == resp.status_code = 200 /\ use_cache

\* the record of a call kept in lastOp
OpRecord(op, url, use_cache, max_age, slept, raised, result, ok, network, resp, delay, path, fault, cut) ==
    [op |-> op, url |-> url, use_cache |-> use_cache, max_cache_age |-> max_age,
     slept |-> slept, raised |-> raised, result |-> result, ok |-> ok,
     network |-> network, resp |-> resp, delay |-> delay, path |-> path,
     fault |-> fault, cut |-> cut, params |-> None, steps |-> <<>>, log |-> ""]

\* the record of a call with the params it was given, the steps it went
\* through in order and the error diagnostic it logged ("" when none)
Noted(rec, params, steps, log) == [rec EXCEPT !.params = params, !.steps = steps, !.log = log]

\* the steps of get in the order of lines 98-116
GetSteps(use_cache, network, answered) ==
    (IF use_cache THEN <<"read_cache">> ELSE <<>>)
    \o (IF network THEN <<"rate_limit", "request">> ELSE <<>>)
    \o (IF answered THEN <<"classify">> ELSE <<>>)

\* the steps of post and download_file in the order of lines 134-144 and 158-172
CallSteps(answered) ==
    <<"rate_limit", "request">> \o (IF answered THEN <<"classify">> ELSE <<>>)

\* get, lines 115-122: the error diagnostic logged; an exception raised by
\* _save_to_cache ends in the generic handler
GetLog(resp, save_raised) ==
    IF resp.kind = "CloudflareChallengeError" THEN "Cloudflare challenge error"
    ELSE IF resp.kind = "Exception" \/ save_raised THEN "Unexpected error"
    ELSE IF resp.status_code # 200 THEN "Request failed with status code"
    ELSE ""

\* post, lines 143-147: the error diagnostic logged
PostLog(resp) ==
    IF resp.kind # "response" THEN "Error in POST request"
    ELSE IF resp.status_code # 200 THEN "POST request failed with status code"
    ELSE ""

\* download_file, lines 171-175: the error diagnostic logged
DownloadLog(resp, raised) ==
    IF resp.kind # "response" \/ raised THEN "Error downloading file"
    ELSE IF resp.status_code # 200 THEN "File download failed with status code"
    ELSE ""

NoOp(op) == OpRecord(op, "", FALSE, 0, FALSE, FALSE, None, FALSE, FALSE, NoResponse,
                     0, <<>>, "none", 0)

\* ------------------------------------------------------------------ Init
\* the state after __init__: last_request_time = 0, the cache directory made
Init ==
    /\ now = StartTime
    /\ last_request_time = 0
    /\ call_begin = -1
    /\ cacheDirExists = TRUE
    /\ cache = [n \in CacheFiles |-> NoFile]
    /\ dirs = {}
    /\ files = [p \in Paths |-> [exists |-> FALSE, bytes |-> <<>>]]
    /\ lastOp = NoOp("init")

\* get deleting the cache file it did not serve before it makes the request
get_request_evicting(url, params, use_cache, max_cache_age, start, resp, delay, lag, fault) ==
    LET stamp == respect_rate_limit(start, delay)
        begin == stamp + lag
        saves == resp.kind = "response" /\ SaveOn200(resp, use_cache)
        saved == save_to_cache(url, resp.text, begin, fault)
        evicted == IF use_cache THEN [cache EXCEPT ![get_cache_filename(url)] = NoFile]
                   ELSE cache
        result == IF resp.kind = "response" /\ resp.status_code = 200
                     /\ ~(saves /\ saved.raised)
                  THEN resp.text ELSE None
    IN  /\ begin <= MaxTime
        /\ (fault # "none" => saves)
        /\ now' = begin
        /\ last_request_time' = stamp
        /\ call_begin' = begin
        /\ cache' = IF saves /\ ~saved.raised THEN saved.cache ELSE evicted
        /\ lastOp' = Noted(OpRecord("get", url, use_cache, max_cache_age, stamp > start, FALSE,
                                    result, FALSE, TRUE, resp, delay, <<>>, fault, 0),
                           params, GetSteps(use_cache, TRUE, resp.kind = "response"),
                           GetLog(resp, saves /\ saved.raised))
        /\ UNCHANGED <<cacheDirExists, dirs, files>>

\* ------------------------------------------------------------------- get
\* the network path of get, lines 104-123, entered at time start
get_request(url, params, use_cache, max_cache_age, start, resp, delay, lag, fault) ==
    LET stamp == respect_rate_limit(start, delay)
        begin == stamp + lag
        saves == resp.kind = "response" /\ SaveOn200(resp, use_cache)
        saved == save_to_cache(url, resp.text, begin, fault)
        result == IF resp.kind = "response" /\ resp.status_code = 200
                     /\ ~(saves /\ saved.raised)
                  THEN resp.text ELSE None
    IN  /\ begin <= MaxTime
        /\ (fault # "none" => saves)
        /\ now' = begin
        /\ last_request_time' = stamp
        /\ call_begin' = begin
        /\ cache' = IF saves THEN saved.cache ELSE cache
        /\ lastOp' = Noted(OpRecord("get", url, use_cache, max_cache_age, stamp > start, FALSE,
                                    result, FALSE, TRUE, resp, delay, <<>>, fault, 0),
                           params, GetSteps(use_cache, TRUE, resp.kind = "response"),
                           GetLog(resp, saves /\ saved.raised))
        /\ UNCHANGED <<cacheDirExists, dirs, files>>

\* get calling _respect_rate_limit before it returns the cached body
get_limiting_hits(url, params, use_cache, max_cache_age) ==
    LET read == IF use_cache THEN get_from_cache(url, max_cache_age, now)
                ELSE [raised |-> FALSE, value |-> None]
    IN  IF read.raised
        THEN /\ lastOp' = Noted(OpRecord("get", url, use_cache, max_cache_age, FALSE, TRUE,
                                         None, FALSE, FALSE, NoResponse, 0, <<>>, "none", 0),
                                params, GetSteps(use_cache, FALSE, FALSE), "")
             /\ UNCHANGED <<now, last_request_time, call_begin, cacheDirExists, cache,
                            dirs, files>>
        ELSE IF Truthy(read.value)
        THEN \E delay \in Delays :
                /\ respect_rate_limit(now, delay) <= MaxTime
                /\ now' = respect_rate_limit(now, delay)
                /\ last_request_time' = respect_rate_limit(now, delay)
                /\ lastOp' = Noted(OpRecord("get", url, use_cache, max_cache_age,
                                            respect_rate_limit(now, delay) > now, FALSE,
                                            read.value, FALSE, FALSE, NoResponse, delay,
                                            <<>>, "none", 0),
                                   params, <<"read_cache", "rate_limit">>, "")
                /\ UNCHANGED <<call_begin, cacheDirExists, cache, dirs, files>>
        ELSE \E resp \in Responses, delay \in Delays, lag \in Lags, fault \in SaveFaults :
                get_request(url, params, use_cache, max_cache_age, now, resp, delay, lag, fault)

get(url, params, use_cache, max_cache_age) ==
    LET read == IF use_cache THEN get_from_cache(url, max_cache_age, now)
                ELSE [raised |-> FALSE, value |-> None]
    IN  IF read.raised
        THEN \* json.load raises at line 81, outside the try of get
             /\ lastOp' = Noted(OpRecord("get", url, use_cache, max_cache_age, FALSE, TRUE,
                                         None, FALSE, FALSE, NoResponse, 0, <<>>, "none", 0),
                                params, GetSteps(use_cache, FALSE, FALSE), "")
             /\ UNCHANGED <<now, last_request_time, call_begin, cacheDirExists, cache,
                            dirs, files>>
        ELSE IF Truthy(read.value)
        THEN \* lines 100-102: served from the cache
             /\ lastOp' = Noted(OpRecord("get", url, use_cache, max_cache_age, FALSE, FALSE,
                                         read.value, FALSE, FALSE, NoResponse, 0, <<>>, "none", 0),
                                params, GetSteps(use_cache, FALSE, FALSE), "")
             /\ UNCHANGED <<now, last_request_time, call_begin, cacheDirExists, cache,
                            dirs, files>>
        ELSE \E resp \in Responses, delay \in Delays, lag \in Lags, fault \in SaveFaults :
                get_request(url, params, use_cache, max_cache_age, now, resp, delay, lag, fault)

\* post without the call of _respect_rate_limit of line 134
post_unlimited(url) ==
    \E resp \in Responses, lag \in Lags :
        LET begin == now + lag
            result == IF resp.kind = "response" /\ resp.status_code = 200
                      THEN resp.text ELSE None
        IN  /\ begin <= MaxTime
            /\ now' = begin
            /\ call_begin' = begin
            /\ lastOp' = Noted(OpRecord("post", url, FALSE, 0, FALSE, FALSE,
                                        result, FALSE, TRUE, resp, 0, <<>>, "none", 0),
                               None, <<"request">> \o (IF resp.kind = "response"
                                                       THEN <<"classify">> ELSE <<>>),
                               PostLog(resp))
            /\ UNCHANGED <<last_request_time, cacheDirExists, cache, dirs, files>>

\* post writing a status-200 body to the cache as get does
post_saving(url) ==
    \E resp \in Responses, delay \in Delays, lag \in Lags :
        LET stamp == respect_rate_limit(now, delay)
            begin == stamp + lag
            result == IF resp.kind = "response" /\ resp.status_code = 200
                      THEN resp.text ELSE None
        IN  /\ begin <= MaxTime
            /\ now' = begin
            /\ last_request_time' = stamp
            /\ call_begin' = begin
            /\ cache' = IF resp.kind = "response" /\ resp.status_code = 200
                        THEN save_to_cache(url, resp.text, begin, "none").cache
                        ELSE cache
            /\ lastOp' = Noted(OpRecord("post", url, FALSE, 0, stamp > now, FALSE,
                                        result, FALSE, TRUE, resp, delay, <<>>, "none", 0),
                               None, CallSteps(resp.kind = "response"), PostLog(resp))
            /\ UNCHANGED <<cacheDirExists, dirs, files>>

\* ------------------------------------------------------------------ post
post(url) ==
    \E resp \in Responses, delay \in Delays, lag \in Lags :
        LET stamp == respect_rate_limit(now, delay)
            begin == stamp + lag
            result == IF resp.kind = "response" /\ resp.status_code = 200
                      THEN resp.text ELSE None
        IN  /\ begin <= MaxTime
            /\ now' = begin
            /\ last_request_time' = stamp
            /\ call_begin' = begin
            /\ lastOp' = Noted(OpRecord("post", url, FALSE, 0, stamp > now, FALSE,
                                        result, FALSE, TRUE, resp, delay, <<>>, "none", 0),
                               None, CallSteps(resp.kind = "response"), PostLog(resp))
            /\ UNCHANGED <<cacheDirExists, cache, dirs, files>>

\* --------------------------------------------------------- download_file
\* os.path.dirname of a path
Dirname(path) == SubSeq(path, 1, Len(path) - 1)

\* os.makedirs(d, exist_ok=True): d and every missing ancestor exist afterwards
Makedirs(d) == dirs \cup {SubSeq(d, 1, k) : k \in 1..Len(d)}

\* the first k chunks of a stream
Prefix(chunks, k) == SubSeq(chunks, 1, k)

\* download_file returning True from its except clause as well
DownloadResultIgnoringFault(resp, path, fault) ==
    resp.status_code = 200 /\ Dirname(path) # <<>>

\* download_file, lines 164-176: the value returned for a response that
\* arrived, given where an exception was raised, if anywhere
DownloadResult(resp, path, fault) ==
    resp.status_code = 200 /\ Dirname(path) # <<>> /\ fault = "none"

download_file(url, path) ==
    \E resp \in StreamResponses, delay \in Delays, lag \in Lags,
       fault \in DownloadFaults, cut \in 0..MaxChunks :
        LET stamp == respect_rate_limit(now, delay)
            begin == stamp + lag
            answered == resp.kind = "response"
            writes == answered /\ resp.status_code = 200
            \* os.makedirs("") raises FileNotFoundError
            made == writes /\ Dirname(path) # <<>> /\ fault # "makedirs"
            opened == made /\ fault # "open"
            written == IF fault = "stream" THEN Prefix(resp.chunks, cut) ELSE resp.chunks
            ok == answered /\ DownloadResult(resp, path, fault)
        IN  /\ begin <= MaxTime
            /\ (fault # "none" => writes /\ Dirname(path) # <<>>)
            /\ IF fault = "stream" THEN cut <= Len(resp.chunks) ELSE cut = 0
            /\ now' = begin
            /\ last_request_time' = stamp
            /\ call_begin' = begin
            /\ dirs' = IF made THEN Makedirs(Dirname(path)) ELSE dirs
            /\ files' = IF opened
                        THEN [files EXCEPT ![path] = [exists |-> TRUE, bytes |-> written]]
                        ELSE files
            /\ lastOp' = Noted(OpRecord("download_file", url, FALSE, 0, stamp > now, FALSE,
                                        None, ok, TRUE, resp, delay, path, fault, cut),
                               None, CallSteps(answered), DownloadLog(resp, writes /\ ~ok))
            /\ UNCHANGED <<cacheDirExists, cache>>

\* ------------------------------------------------------- the environment
\* the cache directory, a path relative to the working directory, is removed
\* (or the working directory changes) after construction
RemoveCacheDir ==
    /\ cacheDirExists
    /\ cacheDirExists' = FALSE
    /\ cache' = [n \in CacheFiles |-> NoFile]
    /\ lastOp' = NoOp("env")
    /\ UNCHANGED <<now, last_request_time, call_begin, dirs, files>>

\* the clock advances between calls
Tick ==
    /\ now < MaxTime
    /\ now' = now + 1
    /\ UNCHANGED <<last_request_time, call_begin, cacheDirExists, cache, dirs, files, lastOp>>

\* the arguments a caller passes for use_cache and max_cache_age
CacheArgs == {<<FALSE, 2>>} \cup {<<TRUE, a>> : a \in MaxCacheAges}

\* the URL the calls of Spec are made on
OneURL == {"https://example.com/a"}

\* every operation of the wrapper, called on one URL
Next ==
    \/ \E url \in OneURL, params \in NoParams, ca \in CacheArgs : get(url, params, ca[1], ca[2])
    \/ \E url \in OneURL : post(url)
    \/ \E url \in OneURL, path \in Paths : download_file(url, path)
    \/ RemoveCacheDir
    \/ Tick

Spec == Init /\ [][Next]_vars

\* the operations that deal with the cache, called on every URL
NextCache ==
    \/ \E url \in URLs, params \in NoParams, ca \in CacheArgs : get(url, params, ca[1], ca[2])
    \/ \E url \in URLs : post(url)
    \/ RemoveCacheDir
    \/ Tick

SpecCache == Init /\ [][NextCache]_vars

\* get called on one URL with every choice of params
NextParams ==
    \/ \E url \in OneURL, params \in ParamSets, ca \in CacheArgs : get(url, params, ca[1], ca[2])
    \/ Tick

SpecParams == Init /\ [][NextParams]_vars

\* ------------------------------------------------------------ properties
\* a step in which get, post or download_file is called (not Tick)
Called == ~(UNCHANGED <<last_request_time, call_begin, cacheDirExists, cache, dirs,
                        files, lastOp>>)

\* the answer was a response with status 200
Is200(resp) == resp.kind = "response" /\ resp.status_code = 200

\* the cache file of the url of a call
FileOf(op) == cache[get_cache_filename(op.url)]

\* C1: no exception ever escapes get, post or download_file: each call
\* returns a value instead of raising.
NoExceptionEscapes == ~lastOp.raised

\* C2: after a get(u, use_cache=True) that fetched a status-200 body b and
\* stored it, the next call get(u, use_cache=True) within the TTL is a cache
\* hit that returns b without a network call.
SecondGetIsCacheHit ==
    [][(/\ Called
        /\ lastOp.op = "get" /\ lastOp.use_cache /\ lastOp.network
        /\ Is200(lastOp.resp) /\ lastOp.fault = "none" /\ cacheDirExists
        /\ lastOp'.op = "get" /\ lastOp'.use_cache /\ lastOp'.url = lastOp.url
        /\ now - FileOf(lastOp).timestamp < lastOp'.max_cache_age)
       => (/\ ~lastOp'.raised
           /\ ~lastOp'.network
           /\ lastOp'.result = lastOp.resp.text)]_vars

\* C3: a get(url, use_cache=True) that finds a malformed cache file behaves
\* as on a cache miss: it does not raise, makes the network call and returns
\* the body of a status-200 answer and None otherwise.
MalformedIsCacheMiss ==
    [][(/\ Called
        /\ lastOp'.op = "get" /\ lastOp'.use_cache
        /\ cacheDirExists /\ cache[get_cache_filename(lastOp'.url)].kind = "malformed")
       => (/\ ~lastOp'.raised
           /\ lastOp'.network
           /\ (lastOp'.fault = "none" /\ Is200(lastOp'.resp)
                 => lastOp'.result = lastOp'.resp.text)
           /\ (~Is200(lastOp'.resp) => lastOp'.result = None))]_vars

\* C4: a get answered with status 200 returns the body, whatever the state
\* of the cache directory, and with use_cache it leaves the body in the cache.
Status200ReturnsBody ==
    (lastOp.op = "get" /\ lastOp.network /\ Is200(lastOp.resp) /\ lastOp.fault = "none")
    => (/\ lastOp.result = lastOp.resp.text
        /\ (lastOp.use_cache
              => /\ cacheDirExists
                 /\ FileOf(lastOp).kind = "entry"
                 /\ FileOf(lastOp).url = lastOp.url
                 /\ FileOf(lastOp).data = lastOp.resp.text))

\* C5: get(url, use_cache=True, max_cache_age) re-fetches when the entry's age
\* is max_cache_age or more, and returns the entry's data without a network
\* call when the age is less.
ExpiryAtMaxAge ==
    [][(/\ Called
        /\ lastOp'.op = "get" /\ lastOp'.use_cache
        /\ cacheDirExists /\ cache[get_cache_filename(lastOp'.url)].kind = "entry")
       => LET entry == cache[get_cache_filename(lastOp'.url)]
          IN  IF now - entry.timestamp >= lastOp'.max_cache_age
              THEN lastOp'.network
              ELSE ~lastOp'.network /\ lastOp'.result = entry.data]_vars

\* C6: two consecutive network calls begin at least the delay apart that the
\* rate-limit step of the second call sampled.
CallsBeginDelayApart ==
    [][(Called /\ lastOp'.network /\ call_begin # -1)
       => call_begin' - call_begin >= lastOp'.delay]_vars

\* C6 as amended: the values two consecutive rate-limit steps store in
\* last_request_time are at least the second step's delay apart.
StampsDelayApart ==
    [][(Called /\ lastOp'.network /\ call_begin # -1)
       => last_request_time' - last_request_time >= lastOp'.delay]_vars

\* a network call whose rate-limit step had to sleep after an earlier call
SleptBeforeCall == lastOp.network /\ lastOp.slept /\ call_begin # -1

\* C7: a get answered with a status other than 200 returns None and leaves
\* the cache as it was.
Non200LeavesCache ==
    [][(/\ Called
        /\ lastOp'.op = "get" /\ lastOp'.network
        /\ lastOp'.resp.kind = "response" /\ lastOp'.resp.status_code # 200)
       => (/\ lastOp'.result = None
           /\ cache' = cache
           /\ cacheDirExists' = cacheDirExists)]_vars

\* a get with use_cache answered 403 while an entry for its url exists
Got403WithEntry ==
    /\ lastOp.op = "get" /\ lastOp.network /\ lastOp.use_cache
    /\ lastOp.resp.kind = "response" /\ lastOp.resp.status_code = 403
    /\ cacheDirExists /\ FileOf(lastOp).kind = "entry"

\* C8: post leaves the cache as it was, always makes the network call and
\* returns what the answer alone decides.
PostLeavesCache ==
    [][(Called /\ lastOp'.op = "post")
       => (/\ cache' = cache
           /\ cacheDirExists' = cacheDirExists
           /\ lastOp'.network
           /\ lastOp'.result = IF Is200(lastOp'.resp) THEN lastOp'.resp.text ELSE None)]_vars

\* a post answered 200 while a fresh entry with another body is cached for
\* its url
PostedOverFreshEntry ==
    /\ lastOp.op = "post" /\ Is200(lastOp.resp)
    /\ cacheDirExists /\ FileOf(lastOp).kind = "entry"
    /\ now - FileOf(lastOp).timestamp < 1
    /\ Truthy(FileOf(lastOp).data) /\ FileOf(lastOp).data # lastOp.resp.text

\* C9: a download answered 200 whose stream completes creates the parent
\* directories of any output path, writes the chunks in order and returns True.
DownloadWritesFile ==
    (lastOp.op = "download_file" /\ Is200(lastOp.resp) /\ lastOp.fault = "none")
    => (/\ lastOp.ok
        /\ files[lastOp.path] = [exists |-> TRUE, bytes |-> lastOp.resp.chunks]
        /\ \A k \in 1..Len(Dirname(lastOp.path)) : SubSeq(lastOp.path, 1, k) \in dirs)

\* C10: download_file returns True only when the status was 200 and the file
\* holds every chunk; a non-200 status or an exception anywhere yields False.
DownloadTrueOnlyOnSuccess ==
    lastOp.op = "download_file"
    => (/\ lastOp.ok => (/\ Is200(lastOp.resp)
                         /\ files[lastOp.path].exists
                         /\ files[lastOp.path].bytes = lastOp.resp.chunks)
        /\ (~Is200(lastOp.resp) \/ lastOp.fault # "none") => ~lastOp.ok)

\* a download that failed mid-stream and left a partial file behind
PartialFileLeft ==
    /\ lastOp.op = "download_file" /\ lastOp.fault = "stream" /\ ~lastOp.ok
    /\ files[lastOp.path].exists
    /\ Len(files[lastOp.path].bytes) < Len(lastOp.resp.chunks)

\* C11: a get served from the cache (use_cache with a fresh entry whose data
\* is returned) does not rate-limit and makes no network call: the clock,
\* last_request_time and the cache stay as they were.
CacheHitSkipsRateLimit ==
    [][(/\ Called
        /\ lastOp'.op = "get" /\ lastOp'.use_cache
        /\ cacheDirExists /\ cache[get_cache_filename(lastOp'.url)].kind = "entry"
        /\ now - cache[get_cache_filename(lastOp'.url)].timestamp < lastOp'.max_cache_age
        /\ Truthy(cache[get_cache_filename(lastOp'.url)].data))
       => (/\ lastOp'.result = cache[get_cache_filename(lastOp'.url)].data
           /\ ~lastOp'.network /\ ~lastOp'.slept
           /\ lastOp'.steps = <<"read_cache">>
           /\ now' = now
           /\ last_request_time' = last_request_time
           /\ call_begin' = call_begin
           /\ cache' = cache /\ cacheDirExists' = cacheDirExists)]_vars

\* a get served from the cache at a moment when a rate-limit step would
\* have had to sleep
ServedFromCache ==
    /\ lastOp.op = "get" /\ lastOp.use_cache /\ ~lastOp.network /\ ~lastOp.raised
    /\ cacheDirExists /\ FileOf(lastOp).kind = "entry"
    /\ lastOp.result = FileOf(lastOp).data /\ Truthy(lastOp.result)
    /\ now - last_request_time < delay_range[1]

\* C12: with use_cache=False get neither reads nor writes the cache: it does
\* not raise on a malformed file, always makes the network call, returns what
\* the answer alone decides and leaves the cache as it was.
NoCacheGetBypassesCache ==
    [][(Called /\ lastOp'.op = "get" /\ ~lastOp'.use_cache)
       => (/\ ~lastOp'.raised
           /\ lastOp'.network
           /\ lastOp'.steps[1] = "rate_limit"
           /\ lastOp'.result = IF Is200(lastOp'.resp) THEN lastOp'.resp.text ELSE None
           /\ cache' = cache /\ cacheDirExists' = cacheDirExists)]_vars

\* a get with use_cache=False answered 200 while a fresh entry with another
\* body is cached for its url
FetchedPastFreshEntry ==
    /\ lastOp.op = "get" /\ ~lastOp.use_cache /\ Is200(lastOp.resp)
    /\ cacheDirExists /\ FileOf(lastOp).kind = "entry"
    /\ \E age \in MaxCacheAges : now - FileOf(lastOp).timestamp < age
    /\ Truthy(FileOf(lastOp).data) /\ FileOf(lastOp).data # lastOp.resp.text

\* C13: last_request_time starts at 0 and never decreases over any sequence
\* of get, post and download_file calls.
StampNeverDecreases ==
    /\ last_request_time = 0
    /\ [][last_request_time' >= last_request_time]_vars

\* a download whose rate-limit step slept after an earlier call and moved
\* last_request_time forward
StampMovedForward ==
    /\ lastOp.op = "download_file" /\ lastOp.slept
    /\ last_request_time > StartTime

\* C14: after a status-200 get(url, use_cache=True), in any prior state of
\* the cache directory and file, the entry for url exists with the new body
\* and the timestamp of the write.
CacheWriteStoresFreshEntry ==
    (lastOp.op = "get" /\ lastOp.use_cache /\ lastOp.network /\ Is200(lastOp.resp)
     /\ lastOp.fault = "none")
    => (/\ cacheDirExists
        /\ FileOf(lastOp) = CacheEntry(call_begin, lastOp.url, lastOp.resp.text))

\* the place of a step in the order read-cache, rate-limit, request, classify
StepRank(step) ==
    CASE step = "read_cache" -> 1
      [] step = "rate_limit" -> 2
      [] step = "request" -> 3
      [] step = "classify" -> 4

\* C15: every call goes through its steps in the order read-cache (get with
\* use_cache only), rate-limit, request, classify, none repeated; a network
\* call comes right after exactly one rate-limit step, which is the step
\* that stamps last_request_time.
OneRateLimitPerRequest ==
    [][(Called /\ lastOp'.op \in {"get", "post", "download_file"})
       => LET st == lastOp'.steps
          IN  /\ \A i \in 1..Len(st), j \in 1..Len(st) :
                    i < j => StepRank(st[i]) < StepRank(st[j])
              /\ lastOp'.network <=> \E i \in 1..Len(st) : st[i] = "request"
              /\ \A i \in 1..Len(st) :
                    st[i] = "request" => i > 1 /\ st[i - 1] = "rate_limit"
              /\ (\E i \in 1..Len(st) : st[i] = "rate_limit")
                    <=> last_request_time' # last_request_time
              /\ (\E i \in 1..Len(st) : st[i] = "read_cache")
                    <=> (lastOp'.op = "get" /\ lastOp'.use_cache)
              /\ (\E i \in 1..Len(st) : st[i] = "classify")
                    <=> lastOp'.resp.kind = "response"]_vars

\* a get that went through all four steps
WentThroughAllSteps ==
    /\ lastOp.op = "get"
    /\ lastOp.steps = <<"read_cache", "rate_limit", "request", "classify">>

\* C16: no call of get, post or download_file removes a cache file or the
\* cache directory, and a cache file changes only in a get with use_cache
\* for its url that was answered 200.
CacheFilesNeverRemoved ==
    [][(Called /\ lastOp'.op \in {"get", "post", "download_file"})
       => (/\ cacheDirExists' = cacheDirExists
           /\ \A n \in CacheFiles :
                /\ cache[n].kind # "absent" => cache'[n].kind # "absent"
                /\ cache'[n] # cache[n]
                     => (/\ lastOp'.op = "get" /\ lastOp'.use_cache
                         /\ Is200(lastOp'.resp)
                         /\ n = get_cache_filename(lastOp'.url)))]_vars

\* a get with use_cache that ignored an expired entry, got an exception from
\* the client and left the entry on disk
ExpiredEntryKept ==
    /\ lastOp.op = "get" /\ lastOp.use_cache /\ lastOp.network
    /\ lastOp.resp.kind = "Exception"
    /\ cacheDirExists /\ FileOf(lastOp).kind = "entry" /\ Truthy(FileOf(lastOp).data)

\* an exception of the client that is not a challenge failure
OtherException == [kind |-> "Exception", status_code |-> 0, text |-> "", chunks |-> <<>>]

\* C17: when the client raises a challenge failure, get and post return None
\* and log a diagnostic that differs from the one they log for any other
\* exception.
ChallengeLoggedDistinctly ==
    (lastOp.op \in {"get", "post"} /\ lastOp.resp.kind = "CloudflareChallengeError")
    => (/\ lastOp.result = None
        /\ lastOp.log # ""
        /\ lastOp.log # (IF lastOp.op = "get" THEN GetLog(OtherException, FALSE)
                         ELSE PostLog(OtherException)))

\* C18: after a get(u, params=p1, use_cache=True) that fetched and stored a
\* status-200 body, the next get(u, params=p2, use_cache=True) with other
\* params within the TTL returns the stored body without a network call.
ParamsIgnoredByCache ==
    [][(/\ Called
        /\ lastOp.op = "get" /\ lastOp.use_cache /\ lastOp.network
        /\ Is200(lastOp.resp) /\ lastOp.fault = "none" /\ cacheDirExists
        /\ lastOp'.op = "get" /\ lastOp'.use_cache /\ lastOp'.url = lastOp.url
        /\ lastOp'.params # lastOp.params
        /\ now - FileOf(lastOp).timestamp < lastOp'.max_cache_age)
       => (/\ ~lastOp'.network
           /\ lastOp'.result = FileOf(lastOp).data
           /\ FileOf(lastOp).data = lastOp.resp.text)]_vars

\* C19: a get that ignores an entry as expired and whose re-fetch fails
\* leaves the entry unchanged, and the next get for the url with a larger
\* max_cache_age than the entry's age returns the old body from the cache
\* without a network call.
ExpiryDecidedByReader ==
    [][/\ (/\ Called
            /\ lastOp'.op = "get" /\ lastOp'.use_cache
            /\ cacheDirExists /\ cache[get_cache_filename(lastOp'.url)].kind = "entry"
            /\ now - cache[get_cache_filename(lastOp'.url)].timestamp
                  >= lastOp'.max_cache_age
            /\ ~Is200(lastOp'.resp))
           => (lastOp'.network /\ cache' = cache)
       /\ (/\ Called
            /\ lastOp.op = "get" /\ lastOp.use_cache /\ lastOp.network
            /\ ~Is200(lastOp.resp) /\ ~lastOp.slept
            /\ cacheDirExists /\ FileOf(lastOp).kind = "entry"
            /\ last_request_time - FileOf(lastOp).timestamp >= lastOp.max_cache_age
            /\ lastOp'.op = "get" /\ lastOp'.use_cache /\ lastOp'.url = lastOp.url
            /\ lastOp'.max_cache_age > now - FileOf(lastOp).timestamp)
           => (/\ ~lastOp'.network
               /\ lastOp'.result = FileOf(lastOp).data)]_vars
====
